---- MODULE Spec2Model ----
(***************************************************************************)
(* Model of the ReunIA face service's matching engine                      *)
(* (src/face-service/services/matcher.py, with the threshold settings of   *)
(* src/face-service/config.py).                                            *)
(*                                                                         *)
(* Numbers.  The code computes in float32 and returns Python floats.  The  *)
(* model computes in fixed point:                                          *)
(*   - vector components are small integers;                               *)
(*   - a norm is kept to 1/NormOne (floor of the exact square root);       *)
(*   - a component of a normalised vector is kept to 1/ElemOne (floor);    *)
(*   - a similarity is a dot product of two normalised vectors, hence an   *)
(*     integer in units of 1/SimOne = 1/(ElemOne*ElemOne) = 1e-8.          *)
(* As in float32, normalising loses precision, so that the raw dot product *)
(* of two parallel vectors can fall slightly below or above 1.0, and a     *)
(* similarity carries more decimals than the 6 that round() keeps.         *)
(***************************************************************************)
EXTENDS Integers, Sequences, FiniteSets, TLC

VARIABLES
    op,               \* which function of matcher.py this behaviour calls
    pc,               \* "call": about to run it; "done": it has returned or raised
    settings,         \* config.settings: the process-wide threshold configuration
    query_embedding,  \* arguments of match_embedding_against_candidates
    candidates,
    threshold,
    max_results,
    a,                \* arguments of cosine_similarity
    b,
    similarity,       \* argument of get_confidence_tier
    results,          \* match_embedding_against_candidates: the local list
                      \* `results` as it is when the loop ends (before the sort)
    matches,          \* the returned match list
    raised,           \* "none", or the exception the call raised
    cos_ret,          \* value returned by cosine_similarity
    tier_ret,         \* value returned by get_confidence_tier
    candidate_embeddings,  \* argument of batch_compute_similarities (with
                           \* query_embedding)
    batch_ret,        \* value returned by batch_compute_similarities
    heap,             \* concurrent calls: the list objects, by reference (the
                      \* callers' queries and candidate lists, and the list
                      \* `results` of each call in progress)
    frames            \* concurrent calls: each caller's arguments, position
                      \* in match_embedding_against_candidates and outcome

vars == <<op, pc, settings, query_embedding, candidates, threshold, max_results,
          a, b, similarity, results, matches, raised, cos_ret, tier_ret,
          candidate_embeddings, batch_ret, heap, frames>>

inputs == <<op, settings, query_embedding, candidates, threshold, max_results,
            a, b, similarity, candidate_embeddings>>

-----------------------------------------------------------------------------
(* Number representation *)

NormOne == 1000
ElemOne == 10000
SimOne == ElemOne * ElemOne

\* the last digit round(similarity, 6) keeps, in units of 1/SimOne
RoundUnit == SimOne \div 1000000

EmbeddingDim == 512

(* Bounds of the model *)
MaxCandidates == 3

-----------------------------------------------------------------------------
(* Vectors.  A Python list of floats of length dim whose components after *)
(* the first Len(head) are all 0.0 is kept as [dim, head]: the embeddings  *)
(* have 512 components, and the sums below skip the products that are 0.   *)

Vec(head, n) == [dim |-> n, head |-> head]

\* len(v)
VLen(v) == v.dim

\* v[i - 1], for 1 <= i <= len(v)
At(v, i) == IF i <= Len(v.head) THEN v.head[i] ELSE 0

RECURSIVE DotRange(_, _, _, _)
DotRange(x, y, lo, hi) ==
    IF lo > hi THEN 0
    ELSE DotRange(x, y, lo, hi - 1) + At(x, hi) * At(y, hi)

Min(x, y) == IF x <= y THEN x ELSE y
Max(x, y) == IF x >= y THEN x ELSE y

\* np.dot of two 1-D arrays of the same length: the components after both
\* heads contribute 0
Dot(x, y) == DotRange(x, y, 1, Min(VLen(x), Max(Len(x.head), Len(y.head))))

RECURSIVE SqrtSearch(_, _, _)
SqrtSearch(n, lo, hi) ==
    IF lo >= hi THEN lo
    ELSE LET mid == (lo + hi + 1) \div 2
         IN  IF mid * mid <= n THEN SqrtSearch(n, mid, hi)
             ELSE SqrtSearch(n, lo, mid - 1)

\* floor of the square root
ISqrt(n) == SqrtSearch(n, 0, 46340)

\* np.linalg.norm(arr), in units of 1/NormOne
Norm(x) == ISqrt(Dot(x, x) * NormOne * NormOne)

\* arr / norm, each component in units of 1/ElemOne
Normalized(x, norm) ==
    [dim |-> x.dim,
     head |-> [i \in 1..Len(x.head) |-> (x.head[i] * ElemOne * NormOne) \div norm]]

Returned(v) == [kind |-> "return", value |-> v]
Raised(e) == [kind |-> "raise", value |-> e]

\* cosine_similarity without the final clamp
cosine_similarity_unclamped(x, y) ==
    LET norm_a == Norm(x)
        norm_b == Norm(y)
    IN  IF norm_a = 0 \/ norm_b = 0 THEN Returned(0)
        ELSE IF VLen(x) # VLen(y) THEN Raised("ValueError")
        ELSE Returned(Dot(Normalized(x, norm_a), Normalized(y, norm_b)))

\* cosine_similarity(a, b).  np.dot raises ValueError when the two arrays
\* differ in length; the norms are taken, and compared with 0, before that.
cosine_similarity(x, y) ==
    LET norm_a == Norm(x)
        norm_b == Norm(y)
    IN  IF norm_a = 0 \/ norm_b = 0 THEN Returned(0)
        ELSE IF VLen(x) # VLen(y) THEN Raised("ValueError")
        ELSE Returned(Max(0, Min(SimOne,
                 Dot(Normalized(x, norm_a), Normalized(y, norm_b)))))

-----------------------------------------------------------------------------
(* config.py: the default thresholds, in units of 1/SimOne *)

THRESHOLD_HIGH == 85000000
THRESHOLD_MEDIUM == 70000000
THRESHOLD_LOW == 55000000
THRESHOLD_REJECT == 55000000

\* Settings(): the defaults, unless the environment overrides them
Settings ==
    [THRESHOLD_HIGH |-> THRESHOLD_HIGH, THRESHOLD_MEDIUM |-> THRESHOLD_MEDIUM,
     THRESHOLD_LOW |-> THRESHOLD_LOW, THRESHOLD_REJECT |-> THRESHOLD_REJECT]

\* models/schemas.py ConfidenceTier
ConfidenceTier == {"HIGH", "MEDIUM", "LOW", "REJECTED"}

\* get_confidence_tier with exclusive lower bounds
get_confidence_tier_exclusive(sim) ==
    IF sim > settings.THRESHOLD_HIGH THEN "HIGH"
    ELSE IF sim > settings.THRESHOLD_MEDIUM THEN "MEDIUM"
    ELSE IF sim > settings.THRESHOLD_LOW THEN "LOW"
    ELSE "REJECTED"

\* get_confidence_tier(similarity), reading the global settings
get_confidence_tier(sim) ==
    IF sim >= settings.THRESHOLD_HIGH THEN "HIGH"
    ELSE IF sim >= settings.THRESHOLD_MEDIUM THEN "MEDIUM"
    ELSE IF sim >= settings.THRESHOLD_LOW THEN "LOW"
    ELSE "REJECTED"

-----------------------------------------------------------------------------
(* match_embedding_against_candidates *)

\* round(similarity, 6): to the nearest multiple of 1e-6, ties to even
Round6(s) ==
    LET q == s \div RoundUnit
        r == s % RoundUnit
    IN  IF 2 * r < RoundUnit THEN q * RoundUnit
        ELSE IF 2 * r > RoundUnit THEN (q + 1) * RoundUnit
        ELSE IF q % 2 = 0 THEN q * RoundUnit
        ELSE (q + 1) * RoundUnit

\* models/schemas.py CandidateRecord
CandidateRecord(id, person, case, embedding) ==
    [face_embedding_id |-> id, person_id |-> person, case_id |-> case,
     embedding |-> embedding]

\* an entry that carries the case id in the place of the person id
MatchCandidateMixed(candidate, sim, tier, i) ==
    [face_embedding_id |-> candidate.face_embedding_id,
     person_id |-> candidate.case_id,
     case_id |-> candidate.case_id,
     similarity |-> Round6(sim),
     confidence_tier |-> tier,
     pos |-> i]

\* models/schemas.py MatchCandidate, as the loop builds it.  The field pos
\* is not in the code: it records the index of the candidate the entry was
\* built from, so that properties can speak of input positions.
MatchCandidate(candidate, sim, tier, i) ==
    [face_embedding_id |-> candidate.face_embedding_id,
     person_id |-> candidate.person_id,
     case_id |-> candidate.case_id,
     similarity |-> Round6(sim),
     confidence_tier |-> tier,
     pos |-> i]

\* the exclusion without the tier check
ExcludedBelowOnly(tier, sim, th) == sim < th

\* the condition of the `continue` that drops a compared candidate
Excluded(tier, sim, th) == tier = "REJECTED" \/ sim < th

\* the loop without the skip of candidates of the wrong embedding length
RECURSIVE MatchLoopNoSkip(_, _, _, _, _)
MatchLoopNoSkip(q, cands, th, i, acc) ==
    IF i > Len(cands) THEN Returned(acc)
    ELSE LET s == cosine_similarity(q, cands[i].embedding)
         IN  IF s.kind = "raise" THEN s
             ELSE LET tier == get_confidence_tier(s.value)
                  IN  IF Excluded(tier, s.value, th)
                      THEN MatchLoopNoSkip(q, cands, th, i + 1, acc)
                      ELSE MatchLoopNoSkip(q, cands, th, i + 1,
                               Append(acc, MatchCandidate(cands[i], s.value, tier, i)))

\* the loop with `break` where the code has `continue` for an excluded
\* candidate
RECURSIVE MatchLoopBreak(_, _, _, _, _)
MatchLoopBreak(q, cands, th, i, acc) ==
    IF i > Len(cands) THEN Returned(acc)
    ELSE IF VLen(cands[i].embedding) # EmbeddingDim
         THEN MatchLoopBreak(q, cands, th, i + 1, acc)
    ELSE LET s == cosine_similarity(q, cands[i].embedding)
         IN  IF s.kind = "raise" THEN s
             ELSE LET tier == get_confidence_tier(s.value)
                  IN  IF Excluded(tier, s.value, th)
                      THEN Returned(acc)
                      ELSE MatchLoopBreak(q, cands, th, i + 1,
                               Append(acc, MatchCandidate(cands[i], s.value, tier, i)))

\* the for loop: the list `results` once candidates i.. have been visited,
\* or the exception that escapes the loop
RECURSIVE MatchLoop(_, _, _, _, _)
MatchLoop(q, cands, th, i, acc) ==
    IF i > Len(cands) THEN Returned(acc)
    ELSE IF VLen(cands[i].embedding) # EmbeddingDim
         THEN MatchLoop(q, cands, th, i + 1, acc)
    ELSE LET s == cosine_similarity(q, cands[i].embedding)
         IN  IF s.kind = "raise" THEN s
             ELSE LET tier == get_confidence_tier(s.value)
                  IN  IF Excluded(tier, s.value, th)
                      THEN MatchLoop(q, cands, th, i + 1, acc)
                      ELSE MatchLoop(q, cands, th, i + 1,
                               Append(acc, MatchCandidate(cands[i], s.value, tier, i)))

\* an insertion that puts m before the entries of equal key (what sorting
\* ascending and reversing would do to ties)
InsertDescBeforeTies(sorted, m) ==
    LET before == {k \in 1..Len(sorted) : sorted[k].similarity > m.similarity}
        n == Cardinality(before)
    IN  SubSeq(sorted, 1, n) \o <<m>> \o SubSeq(sorted, n + 1, Len(sorted))

\* where list.sort(key = similarity, reverse = True) puts m among the
\* entries already placed: after every entry whose key is >= m's (stable)
InsertDesc(sorted, m) ==
    LET before == {k \in 1..Len(sorted) : sorted[k].similarity >= m.similarity}
        n == Cardinality(before)
    IN  SubSeq(sorted, 1, n) \o <<m>> \o SubSeq(sorted, n + 1, Len(sorted))

RECURSIVE SortFrom(_, _, _)
SortFrom(seq, i, acc) ==
    IF i > Len(seq) THEN acc
    ELSE SortFrom(seq, i + 1, InsertDesc(acc, seq[i]))

\* no sort at all
Unsorted(seq) == seq

\* results.sort(key=lambda m: m.similarity, reverse=True)
SortDesc(seq) == SortFrom(seq, 1, <<>>)

\* results[-max_results:], for 1 <= max_results
TruncateTail(seq, n) == SubSeq(seq, Len(seq) - Min(n, Len(seq)) + 1, Len(seq))

\* results[:max_results], for max_results >= 0
Truncate(seq, n) == SubSeq(seq, 1, Min(n, Len(seq)))

\* the call without the check of the query's length
match_without_query_check(q, cands, th, n) ==
    IF cands = <<>> THEN [kind |-> "return", value |-> <<>>, results |-> <<>>]
    ELSE LET loop == MatchLoop(q, cands, th, 1, <<>>)
         IN  IF loop.kind = "raise"
             THEN [kind |-> "raise", value |-> loop.value, results |-> <<>>]
             ELSE [kind |-> "return",
                   value |-> Truncate(SortDesc(loop.value), n),
                   results |-> loop.value]

\* the call with the check of the query's length made first
match_query_check_first(q, cands, th, n) ==
    IF VLen(q) # EmbeddingDim
    THEN [kind |-> "raise", value |-> "ValueError", results |-> <<>>]
    ELSE IF cands = <<>>
         THEN [kind |-> "return", value |-> <<>>, results |-> <<>>]
    ELSE LET loop == MatchLoop(q, cands, th, 1, <<>>)
         IN  IF loop.kind = "raise"
             THEN [kind |-> "raise", value |-> loop.value, results |-> <<>>]
             ELSE [kind |-> "return",
                   value |-> Truncate(SortDesc(loop.value), n),
                   results |-> loop.value]

\* The whole call: [kind, value, results] where results is the loop's list
\* before the sort.  The elapsed time the code also returns is left out.
match_embedding_against_candidates(q, cands, th, n) ==
    IF cands = <<>> THEN [kind |-> "return", value |-> <<>>, results |-> <<>>]
    ELSE IF VLen(q) # EmbeddingDim
         THEN [kind |-> "raise", value |-> "ValueError", results |-> <<>>]
    ELSE LET loop == MatchLoop(q, cands, th, 1, <<>>)
         IN  IF loop.kind = "raise"
             THEN [kind |-> "raise", value |-> loop.value, results |-> <<>>]
             ELSE [kind |-> "return",
                   value |-> Truncate(SortDesc(loop.value), n),
                   results |-> loop.value]

-----------------------------------------------------------------------------
(* batch_compute_similarities *)

\* np.where(candidate_norms == 0, 1.0, candidate_norms), for one row
RowNorm(row) == IF Norm(row) = 0 THEN NormOne ELSE Norm(row)

\* np.clip(similarities, 0.0, 1.0), for one value
Clip(v) == Max(0, Min(SimOne, v))

\* np.array(candidate_embeddings, dtype=np.float32) needs rows of one length
Ragged(rows) == \E i, j \in 1..Len(rows) : VLen(rows[i]) # VLen(rows[j])

\* batch_compute_similarities without np.clip
batch_without_clip(q, rows) ==
    IF rows = <<>> THEN Returned(<<>>)
    ELSE LET query_norm == Norm(q)
         IN  IF query_norm = 0 THEN Returned([i \in 1..Len(rows) |-> 0])
             ELSE IF Ragged(rows) THEN Raised("ValueError")
             ELSE IF VLen(rows[1]) # VLen(q) THEN Raised("ValueError")
             ELSE LET query_normalized == Normalized(q, query_norm)
                  IN  Returned([i \in 1..Len(rows) |->
                          Dot(Normalized(rows[i], RowNorm(rows[i])),
                              query_normalized)])

\* batch_compute_similarities with the rows taken as they are, as if they
\* were normalized already
batch_rows_unnormalized(q, rows) ==
    IF rows = <<>> THEN Returned(<<>>)
    ELSE LET query_norm == Norm(q)
         IN  IF query_norm = 0 THEN Returned([i \in 1..Len(rows) |-> 0])
             ELSE IF Ragged(rows) THEN Raised("ValueError")
             ELSE IF VLen(rows[1]) # VLen(q) THEN Raised("ValueError")
             ELSE LET query_normalized == Normalized(q, query_norm)
                  IN  Returned([i \in 1..Len(rows) |->
                          Clip(Dot(Normalized(rows[i], NormOne),
                                   query_normalized))])

\* batch_compute_similarities(query_embedding, candidate_embeddings).
\* np.array raises ValueError for rows of different lengths, np.dot for rows
\* whose length is not the query's.
batch_compute_similarities(q, rows) ==
    IF rows = <<>> THEN Returned(<<>>)
    ELSE LET query_norm == Norm(q)
         IN  IF query_norm = 0 THEN Returned([i \in 1..Len(rows) |-> 0])
             ELSE IF Ragged(rows) THEN Raised("ValueError")
             ELSE IF VLen(rows[1]) # VLen(q) THEN Raised("ValueError")
             ELSE LET query_normalized == Normalized(q, query_norm)
                  IN  Returned([i \in 1..Len(rows) |->
                          Clip(Dot(Normalized(rows[i], RowNorm(rows[i])),
                                   query_normalized))])

-----------------------------------------------------------------------------
(* The inputs the calls are made with *)

\* threshold configurations: the defaults of config.py, and two that the
\* environment can set although they are not monotonic
OverlapSettings ==
    [THRESHOLD_HIGH |-> 50000000, THRESHOLD_MEDIUM |-> 70000000,
     THRESHOLD_LOW |-> 90000000, THRESHOLD_REJECT |-> 55000000]

SwappedSettings ==
    [THRESHOLD_HIGH |-> 90000000, THRESHOLD_MEDIUM |-> 95000000,
     THRESHOLD_LOW |-> 60000000, THRESHOLD_REJECT |-> 55000000]

\* a medium cutoff with six decimals
FineSettings ==
    [THRESHOLD_HIGH |-> 85000000, THRESHOLD_MEDIUM |-> 70997200,
     THRESHOLD_LOW |-> 55000000, THRESHOLD_REJECT |-> 55000000]

SettingsChoices == {Settings, OverlapSettings, SwappedSettings}

RankSettingsChoices == {Settings, OverlapSettings}

\* query vectors: two of the right length, one of length 511
Queries ==
    {Vec(<<5, 12>>, EmbeddingDim), Vec(<<2, 3>>, EmbeddingDim),
     Vec(<<5, 12>>, EmbeddingDim - 1)}

\* the candidate records lists are drawn from; "e1" and "e2" carry the same
\* embedding, "e5" one of the wrong length
CandidatePool ==
    {CandidateRecord("e1", "p1", "c1", Vec(<<8, 15>>, EmbeddingDim)),
     CandidateRecord("e2", "p2", "c1", Vec(<<8, 15>>, EmbeddingDim)),
     CandidateRecord("e3", "p3", "c2", Vec(<<12, 5>>, EmbeddingDim)),
     CandidateRecord("e4", "p1", "c2", Vec(<<-3, 4>>, EmbeddingDim)),
     CandidateRecord("e5", "p4", "c3", Vec(<<5, 12>>, EmbeddingDim + 1))}

\* max_results: 1, 2, and the default of the signature, which is more than
\* any candidate list here holds
DefaultMaxResults == 20

MaxResultsChoices == {1, 2, DefaultMaxResults}

SeqsUpTo(S, n) == UNION {[1..k -> S] : k \in 0..n}

CandidateLists == SeqsUpTo(CandidatePool, MaxCandidates)

\* caller thresholds in [0, 1], two of them with more than 6 decimals
Thresholds == {0, 55000000, 70997170, 99531710}

\* vectors for cosine_similarity alone
CosineVectors ==
    {Vec(<<>>, 0), Vec(<<0, 0>>, 2), Vec(<<3, 4>>, 2), Vec(<<2, 3>>, 2),
     Vec(<<-3, 4>>, 2), Vec(<<>>, 3), Vec(<<3, 4>>, 3), Vec(<<1, 2, 2>>, 3),
     Vec(<<-1, -2, -2>>, 3), Vec(<<5>>, 1),
     Vec(<<5, 12>>, EmbeddingDim), Vec(<<>>, EmbeddingDim),
     Vec(<<5, 12>>, EmbeddingDim - 1), Vec(<<>>, EmbeddingDim + 1)}

\* the request of the worked example: a query and four candidates whose
\* similarities to it are 0.90, 0.60, 0.40 and 0.86, in this order
ScenarioQuery == Vec(<<3, 4>>, EmbeddingDim)

ScenarioCandidates ==
    <<CandidateRecord("s1", "p1", "c1", Vec(<<4, 6, 2, 2, 2>>, EmbeddingDim)),
      CandidateRecord("s2", "p2", "c1", Vec(<<1>>, EmbeddingDim)),
      CandidateRecord("s3", "p3", "c2", Vec(<<0, 2, 2, 2, 2>>, EmbeddingDim)),
      CandidateRecord("s4", "p4", "c2", Vec(<<5, 7, 5, 1>>, EmbeddingDim))>>

\* arguments for batch_compute_similarities alone
BatchQueries ==
    {Vec(<<5, 12>>, EmbeddingDim), Vec(<<2, 3>>, EmbeddingDim),
     Vec(<<-1, -2, -2>>, EmbeddingDim), Vec(<<>>, EmbeddingDim)}

BatchRows ==
    {Vec(<<8, 15>>, EmbeddingDim), Vec(<<2, 3>>, EmbeddingDim),
     Vec(<<-2, -3>>, EmbeddingDim), Vec(<<>>, EmbeddingDim),
     Vec(<<5, 12>>, EmbeddingDim + 1)}

BatchLists == SeqsUpTo(BatchRows, MaxCandidates)

\* similarities for get_confidence_tier alone: every cutoff of the three
\* configurations, its neighbours, and values outside [0, 1]
Cutoffs ==
    UNION {{c.THRESHOLD_HIGH, c.THRESHOLD_MEDIUM, c.THRESHOLD_LOW} :
             c \in SettingsChoices}

Similarities ==
    UNION {{c - 1, c, c + 1} : c \in Cutoffs}
        \cup {-SimOne, -1, 0, SimOne, SimOne + 1, 2 * SimOne}

-----------------------------------------------------------------------------
(* The state machine: one call per behaviour *)

\* --- concurrent calls of match_embedding_against_candidates ---

\* the requests in flight at once
Callers == {1, 2}

QueryRefs == {<<"query_embedding", 1>>, <<"query_embedding", 2>>}
ListRefs == {<<"candidates", 1>>, <<"candidates", 2>>, <<"candidates", 3>>}
InputRefs == QueryRefs \cup ListRefs

\* the list object call t binds to its local name `results`
SharedResultsCell(t) == <<"results", 1>>

\* `results = []` makes a new list object in every call
ResultsCell(t) == <<"results", t>>

Refs == InputRefs \cup {<<"results", t>> : t \in Callers}

\* the objects the callers hold when the calls begin
InitialHeap ==
    [r \in Refs |->
        CASE r = <<"query_embedding", 1>> -> Vec(<<5, 12>>, EmbeddingDim)
          [] r = <<"query_embedding", 2>> -> Vec(<<5, 12>>, EmbeddingDim - 1)
          [] r = <<"candidates", 1>> ->
                 <<CandidateRecord("e3", "p3", "c2", Vec(<<12, 5>>, EmbeddingDim)),
                   CandidateRecord("e5", "p4", "c3", Vec(<<5, 12>>, EmbeddingDim + 1)),
                   CandidateRecord("e1", "p1", "c1", Vec(<<8, 15>>, EmbeddingDim))>>
          [] r = <<"candidates", 2>> ->
                 <<CandidateRecord("e4", "p1", "c2", Vec(<<-3, 4>>, EmbeddingDim)),
                   CandidateRecord("e2", "p2", "c1", Vec(<<8, 15>>, EmbeddingDim))>>
          [] r = <<"candidates", 3>> -> <<>>
          [] OTHER -> <<>>]

CallThresholds == {0, 70997170}
CallMaxResults == {1, DefaultMaxResults}

\* a caller that has made no call yet.  The field overlapped is not in the
\* code: it records that another call was in progress when this one began.
IdleFrame ==
    [pc |-> "idle", query_embedding |-> <<"query_embedding", 1>>,
     candidates |-> <<"candidates", 3>>, threshold |-> 0, max_results |-> 1,
     i |-> 0, matches |-> <<>>, raised |-> "none", overlapped |-> FALSE]

NoRankArgs ==
    /\ query_embedding = Vec(<<>>, 0)
    /\ candidates = <<>>
    /\ threshold = 0
    /\ max_results = 1

NoCosineArgs == a = Vec(<<>>, 0) /\ b = Vec(<<>>, 0)

NoBatchArgs == candidate_embeddings = <<>>

InitRank ==
    /\ op = "rank"
    /\ settings \in RankSettingsChoices
    /\ query_embedding \in Queries
    /\ candidates \in CandidateLists
    /\ threshold \in Thresholds
    /\ max_results \in MaxResultsChoices
    /\ NoCosineArgs
    /\ NoBatchArgs
    /\ similarity = 0

\* requests of at most one candidate under FineSettings
InitRankFine ==
    /\ op = "rank"
    /\ settings = FineSettings
    /\ query_embedding \in Queries
    /\ candidates \in SeqsUpTo(CandidatePool, 1)
    /\ threshold \in Thresholds
    /\ max_results \in MaxResultsChoices
    /\ NoCosineArgs
    /\ NoBatchArgs
    /\ similarity = 0

InitScenario ==
    /\ op = "rank"
    /\ settings = Settings
    /\ query_embedding = ScenarioQuery
    /\ candidates = ScenarioCandidates
    /\ threshold \in Thresholds
    /\ max_results \in MaxResultsChoices \cup {3}
    /\ NoCosineArgs
    /\ NoBatchArgs
    /\ similarity = 0

InitCosine ==
    /\ op = "cosine"
    /\ settings = Settings
    /\ a \in CosineVectors
    /\ b \in CosineVectors
    /\ NoRankArgs
    /\ NoBatchArgs
    /\ similarity = 0

InitClassify ==
    /\ op = "classify"
    /\ settings \in SettingsChoices
    /\ similarity \in Similarities
    /\ NoRankArgs
    /\ NoCosineArgs
    /\ NoBatchArgs

InitBatch ==
    /\ op = "batch"
    /\ settings = Settings
    /\ query_embedding \in BatchQueries
    /\ candidate_embeddings \in BatchLists
    /\ candidates = <<>>
    /\ threshold = 0
    /\ max_results = 1
    /\ NoCosineArgs
    /\ similarity = 0

Init ==
    /\ InitRank \/ InitRankFine \/ InitScenario \/ InitCosine \/ InitClassify \/ InitBatch
    /\ pc = "call"
    /\ results = <<>>
    /\ matches = <<>>
    /\ raised = "none"
    /\ cos_ret = 0
    /\ tier_ret = "none"
    /\ batch_ret = <<>>
    /\ heap = InitialHeap
    /\ frames = [t \in Callers |-> IdleFrame]

\* POST /match reaches match_embedding_against_candidates
Rank ==
    /\ op = "rank" /\ pc = "call"
    /\ LET r == match_embedding_against_candidates(
                    query_embedding, candidates, threshold, max_results)
       IN  /\ results' = r.results
           /\ matches' = IF r.kind = "return" THEN r.value ELSE matches
           /\ raised' = IF r.kind = "raise" THEN r.value ELSE "none"
    /\ pc' = "done"
    /\ UNCHANGED <<inputs, heap, frames, cos_ret, tier_ret, batch_ret>>

CosineSimilarity ==
    /\ op = "cosine" /\ pc = "call"
    /\ LET r == cosine_similarity(a, b)
       IN  /\ cos_ret' = IF r.kind = "return" THEN r.value ELSE cos_ret
           /\ raised' = IF r.kind = "raise" THEN r.value ELSE "none"
    /\ pc' = "done"
    /\ UNCHANGED <<inputs, heap, frames, results, matches, tier_ret, batch_ret>>

Classify ==
    /\ op = "classify" /\ pc = "call"
    /\ tier_ret' = get_confidence_tier(similarity)
    /\ pc' = "done"
    /\ UNCHANGED <<inputs, heap, frames, results, matches, raised, cos_ret, batch_ret>>

BatchComputeSimilarities ==
    /\ op = "batch" /\ pc = "call"
    /\ LET r == batch_compute_similarities(query_embedding, candidate_embeddings)
       IN  /\ batch_ret' = IF r.kind = "return" THEN r.value ELSE batch_ret
           /\ raised' = IF r.kind = "raise" THEN r.value ELSE "none"
    /\ pc' = "done"
    /\ UNCHANGED <<inputs, heap, frames, results, matches, cos_ret, tier_ret>>

\* every concurrent behaviour makes calls of rank only; the single-call
\* variables stay as they begin
InitCalls ==
    /\ op = "calls"
    /\ pc = "done"
    /\ settings \in RankSettingsChoices
    /\ NoRankArgs
    /\ NoCosineArgs
    /\ NoBatchArgs
    /\ similarity = 0
    /\ results = <<>>
    /\ matches = <<>>
    /\ raised = "none"
    /\ cos_ret = 0
    /\ tier_ret = "none"
    /\ batch_ret = <<>>
    /\ heap = InitialHeap
    /\ frames = [t \in Callers |-> IdleFrame]

single == <<op, pc, settings, query_embedding, candidates, threshold,
            max_results, a, b, similarity, results, matches, raised, cos_ret,
            tier_ret, candidate_embeddings, batch_ret>>

InCall(t) == frames[t].pc \in {"loop", "sorted"}

\* caller t calls match_embedding_against_candidates: the two checks before
\* the loop, and `results = []`
Enter(t) ==
    /\ op = "calls"
    /\ frames[t].pc \in {"idle", "done"}
    /\ \E q \in QueryRefs, c \in ListRefs, th \in CallThresholds,
          n \in CallMaxResults :
          LET fr == [pc |-> "loop", query_embedding |-> q, candidates |-> c,
                     threshold |-> th, max_results |-> n, i |-> 1,
                     matches |-> <<>>, raised |-> "none",
                     overlapped |-> \E u \in Callers \ {t} : InCall(u)]
          IN  IF heap[c] = <<>>
              THEN /\ frames' = [frames EXCEPT ![t] = [fr EXCEPT !.pc = "done"]]
                   /\ UNCHANGED heap
              ELSE IF VLen(heap[q]) # EmbeddingDim
              THEN /\ frames' = [frames EXCEPT ![t] =
                                    [fr EXCEPT !.pc = "done",
                                               !.raised = "ValueError"]]
                   /\ UNCHANGED heap
              ELSE /\ frames' = [frames EXCEPT ![t] = fr]
                   /\ heap' = [heap EXCEPT ![ResultsCell(t)] = <<>>]
    /\ UNCHANGED single

\* one iteration of the for loop in the call of caller t
LoopStep(t) ==
    /\ op = "calls"
    /\ frames[t].pc = "loop"
    /\ frames[t].i <= Len(heap[frames[t].candidates])
    /\ LET fr == frames[t]
           candidate == heap[fr.candidates][fr.i]
           s == cosine_similarity(heap[fr.query_embedding], candidate.embedding)
           tier == get_confidence_tier(s.value)
           next == [frames EXCEPT ![t].i = fr.i + 1]
       IN  IF VLen(candidate.embedding) # EmbeddingDim
           THEN frames' = next /\ UNCHANGED heap
           ELSE IF s.kind = "raise"
           THEN /\ frames' = [frames EXCEPT ![t].pc = "done",
                                            ![t].raised = s.value]
                /\ UNCHANGED heap
           ELSE IF Excluded(tier, s.value, fr.threshold)
           THEN frames' = next /\ UNCHANGED heap
           ELSE /\ frames' = next
                /\ heap' = [heap EXCEPT ![ResultsCell(t)] =
                               Append(@, MatchCandidate(candidate, s.value,
                                                        tier, fr.i))]
    /\ UNCHANGED single

\* results.sort(...) once the loop of caller t has ended: in place
SortResults(t) ==
    /\ op = "calls"
    /\ frames[t].pc = "loop"
    /\ frames[t].i > Len(heap[frames[t].candidates])
    /\ heap' = [heap EXCEPT ![ResultsCell(t)] = SortDesc(@)]
    /\ frames' = [frames EXCEPT ![t].pc = "sorted"]
    /\ UNCHANGED single

\* return results[:max_results]
ReturnMatches(t) ==
    /\ op = "calls"
    /\ frames[t].pc = "sorted"
    /\ frames' = [frames EXCEPT ![t].pc = "done",
                                ![t].matches = Truncate(heap[ResultsCell(t)],
                                                        frames[t].max_results)]
    /\ UNCHANGED <<single, heap>>

NextCalls ==
    \E t \in Callers : Enter(t) \/ LoopStep(t) \/ SortResults(t) \/ ReturnMatches(t)

SpecCalls == InitCalls /\ [][NextCalls]_vars

Next == Rank \/ CosineSimilarity \/ Classify \/ BatchComputeSimilarities

Spec == Init /\ [][Next]_vars

-----------------------------------------------------------------------------
(* Vocabulary of the properties *)

RankDone == op = "rank" /\ pc = "done"
RankReturned == RankDone /\ raised = "none"
ValidQuery == VLen(query_embedding) = EmbeddingDim

\* a match record as the caller sees it (without the pos annotation)
Public(m) ==
    [face_embedding_id |-> m.face_embedding_id, person_id |-> m.person_id,
     case_id |-> m.case_id, similarity |-> m.similarity,
     confidence_tier |-> m.confidence_tier]

PublicSeq(ms) == [k \in 1..Len(ms) |-> Public(ms[k])]

Positions(ms) == {ms[k].pos : k \in 1..Len(ms)}

\* the candidate list without the candidates of the wrong embedding length
WellFormed(cands) == SelectSeq(cands, LAMBDA c : VLen(c.embedding) = EmbeddingDim)

\* the unrounded similarity the loop computes for candidate i
RawSimilarity(i) == cosine_similarity(query_embedding, candidates[i].embedding).value

-----------------------------------------------------------------------------
(* C1: every entry rank returns has a tier other than REJECTED and carries *)
(* a similarity >= the caller's threshold.  (The code compares the         *)
(* unrounded similarity with the threshold and returns the rounded one.)   *)
C1_ReturnedAtLeastThreshold ==
    (RankReturned /\ ValidQuery) =>
        \A k \in 1..Len(matches) :
            /\ matches[k].confidence_tier # "REJECTED"
            /\ matches[k].similarity >= threshold

(* C2 as stated: a query whose length is not 512 makes rank raise, for     *)
(* every candidate list, empty or not.                                     *)
C2_BadQueryAlwaysRaises ==
    (RankDone /\ ~ValidQuery) => raised = "ValueError"

(* C2, amended: a query whose length is not 512 makes rank raise and       *)
(* return no list when the candidate list is not empty; with an empty      *)
(* candidate list rank returns the empty list and raises nothing.          *)
C2_BadQueryRaisesUnlessEmpty ==
    (RankDone /\ ~ValidQuery) =>
        /\ matches = <<>> /\ results = <<>>
        /\ IF candidates = <<>> THEN raised = "none" ELSE raised = "ValueError"

C2_Witness ==
    /\ RankDone /\ ~ValidQuery /\ raised = "ValueError"
    /\ \E i \in 1..Len(candidates) : VLen(candidates[i].embedding) # EmbeddingDim
    /\ \E i \in 1..Len(candidates) : VLen(candidates[i].embedding) = EmbeddingDim

(* C3: with a valid query, candidates whose embedding length is not 512    *)
(* are skipped without an error: the returned list is the list returned    *)
(* for the candidate list with those candidates removed.                   *)
C3_BadCandidatesSkipped ==
    (RankDone /\ ValidQuery) =>
        /\ raised = "none"
        /\ LET r == match_embedding_against_candidates(query_embedding,
                        WellFormed(candidates), threshold, max_results)
           IN  r.kind = "return" /\ PublicSeq(matches) = PublicSeq(r.value)

C3_Witness ==
    /\ RankReturned /\ ValidQuery
    /\ Len(matches) >= 2
    /\ \E i \in 1..Len(candidates) :
          /\ VLen(candidates[i].embedding) # EmbeddingDim
          /\ \E k \in 1..Len(matches) : matches[k].pos > i
          /\ \E k \in 1..Len(matches) : matches[k].pos < i

(* C4: the returned list is sorted by similarity, non-increasing.          *)
C4_SortedDescending ==
    RankReturned =>
        \A k \in 1..(Len(matches) - 1) :
            matches[k].similarity >= matches[k + 1].similarity

C4_Witness ==
    /\ RankReturned /\ Len(matches) >= 3
    /\ matches[1].similarity > matches[2].similarity
    /\ matches[2].similarity > matches[3].similarity
    /\ matches[1].pos > matches[2].pos
    /\ matches[2].pos > matches[3].pos

(* C5: for max_results >= 1 the returned list holds min(max_results,       *)
(* number of survivors) survivors, each once, and no survivor left out has *)
(* a similarity greater than a returned one.                               *)
C5_TruncatedToBest ==
    (RankReturned /\ max_results >= 1) =>
        /\ Len(matches) = Min(max_results, Len(results))
        /\ \A k \in 1..Len(matches) : \E j \in 1..Len(results) : results[j] = matches[k]
        /\ Cardinality(Positions(matches)) = Len(matches)
        /\ \A j \in 1..Len(results) :
              results[j].pos \notin Positions(matches) =>
                  \A k \in 1..Len(matches) :
                      results[j].similarity <= matches[k].similarity

C5_Witness ==
    /\ RankReturned /\ max_results = 1 /\ Len(results) >= 2
    /\ Len(matches) = 1
    /\ \E j \in 1..Len(results) :
          /\ results[j].pos < matches[1].pos
          /\ results[j].similarity < matches[1].similarity

(* C6: a candidate with a 512-dimensional embedding is left out of the     *)
(* survivors exactly when its tier is REJECTED or its similarity is below  *)
(* the caller's threshold.                                                 *)
C6_ExcludedIffRejectedOrBelow ==
    (RankReturned /\ ValidQuery) =>
        \A i \in 1..Len(candidates) :
            VLen(candidates[i].embedding) = EmbeddingDim =>
                (i \notin Positions(results)
                    <=> (\/ get_confidence_tier(RawSimilarity(i)) = "REJECTED"
                         \/ RawSimilarity(i) < threshold))

\* a REJECTED candidate at or above a threshold lower than the low cutoff
\* is left out, while another candidate of the same call survives
C6_Witness ==
    /\ RankReturned /\ ValidQuery
    /\ threshold < settings.THRESHOLD_LOW
    /\ \E i \in 1..Len(candidates) :
          /\ VLen(candidates[i].embedding) = EmbeddingDim
          /\ get_confidence_tier(RawSimilarity(i)) = "REJECTED"
          /\ RawSimilarity(i) >= threshold
          /\ i \notin Positions(results)
    /\ \E i \in 1..Len(candidates) : i \in Positions(results)

(* C7: of two returned entries with equal similarity, the one built from   *)
(* the earlier candidate comes first.                                      *)
C7_TiesInInputOrder ==
    RankReturned =>
        \A j, k \in 1..Len(matches) :
            (j < k /\ matches[j].similarity = matches[k].similarity)
                => matches[j].pos < matches[k].pos

C7_Witness ==
    /\ RankReturned /\ Len(matches) >= 3
    /\ matches[1].similarity = matches[2].similarity
    /\ candidates[matches[1].pos] # candidates[matches[2].pos]
    /\ matches[3].pos < matches[1].pos

(* C8: get_confidence_tier returns HIGH iff similarity >= high; otherwise  *)
(* MEDIUM iff similarity >= medium; otherwise LOW iff similarity >= low;   *)
(* otherwise REJECTED; for every similarity and threshold configuration.   *)
C8_ClassifyFirstMatchWins ==
    (op = "classify" /\ pc = "done") =>
        LET high == similarity >= settings.THRESHOLD_HIGH
            medium == similarity >= settings.THRESHOLD_MEDIUM
            low == similarity >= settings.THRESHOLD_LOW
        IN  /\ tier_ret \in ConfidenceTier
            /\ tier_ret = "HIGH" <=> high
            /\ tier_ret = "MEDIUM" <=> (~high /\ medium)
            /\ tier_ret = "LOW" <=> (~high /\ ~medium /\ low)
            /\ tier_ret = "REJECTED" <=> (~high /\ ~medium /\ ~low)

C8_Witness ==
    /\ op = "classify" /\ pc = "done"
    /\ settings.THRESHOLD_HIGH < settings.THRESHOLD_MEDIUM
    /\ settings.THRESHOLD_MEDIUM < settings.THRESHOLD_LOW
    /\ similarity = settings.THRESHOLD_HIGH
    /\ tier_ret = "HIGH"

(* C9: with an empty candidate list rank returns the empty list and        *)
(* raises nothing.                                                         *)
C9_EmptyCandidatesEmptyResult ==
    (RankDone /\ candidates = <<>>) => (raised = "none" /\ matches = <<>>)

C9_Witness ==
    RankDone /\ candidates = <<>> /\ ~ValidQuery /\ raised = "none"

(* C10: cosine_similarity called with vectors of different lengths always  *)
(* raises and never returns a number, zero norms included.                 *)
C10_LengthMismatchRaises ==
    (op = "cosine" /\ pc = "done" /\ VLen(a) # VLen(b)) => raised = "ValueError"

-----------------------------------------------------------------------------
\* the cosine of two vectors of non-zero norm before it is clamped
RawCosine(x, y) == Dot(Normalized(x, Norm(x)), Normalized(y, Norm(y)))

ZeroNorm(x) == \A i \in 1..Len(x.head) : x.head[i] = 0

CosineDone == op = "cosine" /\ pc = "done"

(* C11: for two vectors of equal length cosine_similarity returns a value  *)
(* in [0, 1]: 0 when the raw cosine is negative, 1 when it is above 1, and *)
(* exactly 0, without an error, when either vector has zero norm.          *)
C11_CosineClamped ==
    (CosineDone /\ VLen(a) = VLen(b)) =>
        /\ raised = "none"
        /\ cos_ret >= 0 /\ cos_ret <= SimOne
        /\ (ZeroNorm(a) \/ ZeroNorm(b)) => cos_ret = 0
        /\ (~ZeroNorm(a) /\ ~ZeroNorm(b)) =>
              /\ RawCosine(a, b) < 0 => cos_ret = 0
              /\ RawCosine(a, b) > SimOne => cos_ret = SimOne
              /\ (RawCosine(a, b) >= 0 /\ RawCosine(a, b) <= SimOne)
                    => cos_ret = RawCosine(a, b)

C11_Witness ==
    /\ CosineDone /\ VLen(a) = VLen(b)
    /\ ~ZeroNorm(a) /\ ~ZeroNorm(b)
    /\ RawCosine(a, b) < 0
    /\ cos_ret = 0 /\ raised = "none"

-----------------------------------------------------------------------------
\* 1e-5, in units of 1/SimOne
Tolerance == SimOne \div 100000

Abs(x) == IF x >= 0 THEN x ELSE -x

BatchDone == op = "batch" /\ pc = "done"

\* every row has the query's length: each scalar comparison is defined
RowsMatchQuery ==
    \A i \in 1..Len(candidate_embeddings) :
        VLen(candidate_embeddings[i]) = VLen(query_embedding)

(* C13: for rows of the query's length batch_compute_similarities returns  *)
(* one value per row, in row order, each within 1e-5 of                    *)
(* cosine_similarity(query, row) and in [0, 1]: nothing for no rows, 0 for *)
(* a row of zero norm, 0 for every row when the query has zero norm.       *)
C13_BatchEqualsScalar ==
    (BatchDone /\ RowsMatchQuery) =>
        /\ raised = "none"
        /\ Len(batch_ret) = Len(candidate_embeddings)
        /\ \A i \in 1..Len(candidate_embeddings) :
              LET c == cosine_similarity(query_embedding, candidate_embeddings[i])
              IN  /\ c.kind = "return"
                  /\ Abs(batch_ret[i] - c.value) <= Tolerance
                  /\ batch_ret[i] >= 0 /\ batch_ret[i] <= SimOne
                  /\ ZeroNorm(candidate_embeddings[i]) => batch_ret[i] = 0
                  /\ ZeroNorm(query_embedding) => batch_ret[i] = 0

\* a zero-norm row between two rows of different similarity, one of them
\* with a negative raw cosine
C13_Witness ==
    /\ BatchDone /\ RowsMatchQuery /\ raised = "none"
    /\ Len(batch_ret) = 3
    /\ ~ZeroNorm(query_embedding)
    /\ ZeroNorm(candidate_embeddings[2]) /\ batch_ret[2] = 0
    /\ batch_ret[1] > 0
    /\ ~ZeroNorm(candidate_embeddings[3]) /\ batch_ret[3] = 0

-----------------------------------------------------------------------------
(* The batch path of the ranking.  matcher.py has no such function: this   *)
(* is the BatchMatchRanker the specification describes, the contract of    *)
(* match_embedding_against_candidates with every similarity taken from one *)
(* call of batch_compute_similarities before the filter, sort and          *)
(* truncation of that function.                                            *)

\* the indices of the candidates with an embedding of the right length
WellFormedIndices(cands) ==
    SelectSeq([i \in 1..Len(cands) |-> i],
              LAMBDA i : VLen(cands[i].embedding) = EmbeddingDim)

RECURSIVE BatchFilter(_, _, _, _, _, _)
BatchFilter(cands, idx, sims, th, k, acc) ==
    IF k > Len(idx) THEN acc
    ELSE LET tier == get_confidence_tier(sims[k])
         IN  IF Excluded(tier, sims[k], th)
             THEN BatchFilter(cands, idx, sims, th, k + 1, acc)
             ELSE BatchFilter(cands, idx, sims, th, k + 1,
                      Append(acc, MatchCandidate(cands[idx[k]], sims[k], tier, idx[k])))

batch_match(q, cands, th, n) ==
    IF cands = <<>> THEN Returned(<<>>)
    ELSE IF VLen(q) # EmbeddingDim THEN Raised("ValueError")
    ELSE LET idx == WellFormedIndices(cands)
             sims == batch_compute_similarities(q,
                         [k \in 1..Len(idx) |-> cands[idx[k]].embedding])
         IN  IF sims.kind = "raise" THEN sims
             ELSE Returned(Truncate(SortDesc(
                      BatchFilter(cands, idx, sims.value, th, 1, <<>>)), n))

-----------------------------------------------------------------------------
\* the similarity and tier of each returned entry
Ranking(ms) == [k \in 1..Len(ms) |-> <<ms[k].similarity, ms[k].confidence_tier>>]

\* the call of the worked example: threshold 0.55, the default thresholds,
\* four candidates of similarities 0.90, 0.60, 0.40, 0.86, and room for
\* three results
ScenarioCall ==
    /\ RankDone /\ ValidQuery
    /\ threshold = 55000000
    /\ settings = Settings
    /\ Len(candidates) = 4
    /\ \A i \in 1..4 : VLen(candidates[i].embedding) = EmbeddingDim
    /\ <<RawSimilarity(1), RawSimilarity(2), RawSimilarity(3), RawSimilarity(4)>>
          = <<90000000, 60000000, 40000000, 86000000>>
    /\ max_results >= 3

(* C14: with threshold 0.55 and the thresholds 0.85 / 0.70 / 0.55 / 0.55,  *)
(* candidates of similarities 0.90, 0.60, 0.40, 0.86 (in this order) are   *)
(* ranked 0.90 HIGH, 0.86 HIGH, 0.60 LOW, the 0.40 candidate left out.     *)
C14_ScenarioRanking ==
    ScenarioCall =>
        /\ raised = "none"
        /\ Ranking(matches) = <<<<90000000, "HIGH">>, <<86000000, "HIGH">>,
                                <<60000000, "LOW">>>>
        /\ <<matches[1].pos, matches[2].pos, matches[3].pos>> = <<1, 4, 2>>
        /\ 3 \notin Positions(matches)

C14_Witness == ScenarioCall /\ Len(matches) = 3 /\ max_results = 3

-----------------------------------------------------------------------------
(* C16: the tier of every returned entry is the tier get_confidence_tier   *)
(* gives to the similarity the entry carries (the rounded one).  (The code *)
(* classifies the unrounded similarity and returns the rounded one.)       *)
C16_TierOfReturnedSimilarity ==
    RankReturned =>
        \A k \in 1..Len(matches) :
            matches[k].confidence_tier = get_confidence_tier(matches[k].similarity)

(* C17: rank neither invents nor duplicates matches: every returned entry  *)
(* is built from one input position whose embedding has 512 components and *)
(* carries that candidate's embedding id, person id and case id unchanged; *)
(* no input position yields two entries; the result is no longer than the  *)
(* candidate list.                                                         *)
C17_NoInventedNoDuplicated ==
    RankReturned =>
        /\ \A k \in 1..Len(matches) :
              /\ matches[k].pos \in 1..Len(candidates)
              /\ VLen(candidates[matches[k].pos].embedding) = EmbeddingDim
              /\ matches[k].face_embedding_id =
                     candidates[matches[k].pos].face_embedding_id
              /\ matches[k].person_id = candidates[matches[k].pos].person_id
              /\ matches[k].case_id = candidates[matches[k].pos].case_id
        /\ \A j, k \in 1..Len(matches) :
              j # k => matches[j].pos # matches[k].pos
        /\ Len(matches) <= Len(candidates)

\* the same record twice in the input, both returned, next to a candidate
\* of the wrong embedding length
C17_Witness ==
    /\ RankReturned
    /\ \E i \in 1..Len(candidates) : VLen(candidates[i].embedding) # EmbeddingDim
    /\ \E j, k \in 1..Len(matches) :
          /\ j # k
          /\ Public(matches[j]) = Public(matches[k])
          /\ candidates[matches[j].pos] = candidates[matches[k].pos]

(* C15: rank is stateless.  After any sequence or interleaving of calls the *)
(* queries and candidate lists the callers passed are what they were, and   *)
(* every finished call has the outcome that its own arguments and the       *)
(* threshold configuration determine.                                       *)
C15_StatelessCalls ==
    op = "calls" =>
        /\ \A r \in InputRefs : heap[r] = InitialHeap[r]
        /\ \A t \in Callers :
              frames[t].pc = "done" =>
                  LET fr == frames[t]
                      r == match_embedding_against_candidates(
                               InitialHeap[fr.query_embedding],
                               InitialHeap[fr.candidates],
                               fr.threshold, fr.max_results)
                  IN  IF r.kind = "raise"
                      THEN fr.raised = r.value
                      ELSE fr.raised = "none" /\ fr.matches = r.value

\* two finished calls on the same candidate list, one begun while the other
\* was in progress, with different results
C15_Witness ==
    /\ op = "calls"
    /\ frames[1].pc = "done" /\ frames[2].pc = "done"
    /\ frames[1].overlapped
    /\ frames[1].candidates = frames[2].candidates
    /\ Len(frames[1].matches) = 1 /\ Len(frames[2].matches) = 2

====
